---- MODULE Spec2Model ----
(***************************************************************************)
(* Model of simple-flash-store (src/src/lib.rs): a log-structured store of *)
(* up to 255 numbered files on a raw flash device.  The flash is a byte    *)
(* array; every public operation is computed from the code as the list of  *)
(* flash operations (erase / write) it issues, applied in order.           *)
(***************************************************************************)
EXTENDS Integers, Naturals, Sequences, FiniteSets, TLC

VARIABLES dev, flash, files, sinceInit, erase_count, wcount, last, check_pos, crashes

vars == <<dev, flash, files, sinceInit, erase_count, wcount, last, check_pos, crashes>>

(***************************************************************************)
(* Bounds of the model.                                                    *)
(***************************************************************************)
\* payload lengths reach up to MaxSlots slots
MaxSlots == 2
\* erases of one page after which no further compaction / initialize is taken
MaxErase == 1
\* power losses in one behaviour
MaxCrash == 1

HEADER_SIZE == 4
MAX_FILE_SIZE == 16777215
END_OF_STORE == 255
NUM_FILES == 255
U8 == 256

\* Option<u8>::None for a file number
None == -1
\* Option<(usize, usize)>::None for a scan result
NotYetFound == [none |-> TRUE, offset |-> 0, size |-> 0]

(***************************************************************************)
(* Devices: the FlashTrait constants.  The repository's tests use          *)
(* SIZE = 1024, PAGE_SIZE = 128; the model uses the same shapes scaled     *)
(* down, one device per supported WORD_SIZE.                               *)
(***************************************************************************)
Devices ==
  { [SIZE |-> 16, PAGE_SIZE |-> 8,  WORD_SIZE |-> 1,  ERASED_VALUE |-> 255],
    [SIZE |-> 16, PAGE_SIZE |-> 4,  WORD_SIZE |-> 2,  ERASED_VALUE |-> 0],
    [SIZE |-> 12, PAGE_SIZE |-> 4,  WORD_SIZE |-> 4,  ERASED_VALUE |-> 255],
    [SIZE |-> 16, PAGE_SIZE |-> 8,  WORD_SIZE |-> 8,  ERASED_VALUE |-> 255],
    [SIZE |-> 48, PAGE_SIZE |-> 16, WORD_SIZE |-> 16, ERASED_VALUE |-> 0],
    [SIZE |-> 64, PAGE_SIZE |-> 32, WORD_SIZE |-> 32, ERASED_VALUE |-> 255] }

SIZE == dev.SIZE
PAGE_SIZE == dev.PAGE_SIZE
WORD_SIZE == dev.WORD_SIZE
ERASED_VALUE == dev.ERASED_VALUE

Min(a, b) == IF a < b THEN a ELSE b
Max(a, b) == IF a > b THEN a ELSE b

\* the slot: WORD_SIZE.max(HEADER_SIZE)
Slot == Max(WORD_SIZE, HEADER_SIZE)

(***************************************************************************)
(* Byte arithmetic.                                                        *)
(***************************************************************************)
RECURSIVE XorBits(_, _, _)
XorBits(a, b, bits) ==
  IF bits = 0 THEN 0
  ELSE (((a % 2) + (b % 2)) % 2) + 2 * XorBits(a \div 2, b \div 2, bits - 1)

\* The u8 XOR as a table, so that every header decoded costs one lookup.
XorTable == [a \in 0..255 |-> [b \in 0..255 |-> XorBits(a, b, 8)]]

Xor8(a, b) == XorTable[a][b]
Not8(a) == 255 - a

(***************************************************************************)
(* Record codec.                                                           *)
(***************************************************************************)
parse_header(header) ==
  [number |-> Xor8(Not8(header[1]), ERASED_VALUE),
   size   |-> header[2] + 256 * header[3] + 65536 * header[4]]

\* mutant: stores the complement of the number without the device's erased value
make_header_no_xor(number, size) ==
  << Not8(number), size % 256, (size \div 256) % 256, (size \div 65536) % 256 >>

make_header(number, size) ==
  << Xor8(Not8(number), ERASED_VALUE),
     size % 256, (size \div 256) % 256, (size \div 65536) % 256 >>

\* mutant: rounds to the header size instead of the slot
round_to_header(offset) == (((offset - 1) \div HEADER_SIZE) + 1) * HEADER_SIZE

round(offset) == (((offset - 1) \div Slot) + 1) * Slot

\* a payload handed to write_file: buffer.len() bytes, byte i = fill + i
DataByte(buffer, i) == (buffer.fill + i) % U8
DataSeq(buffer, from, to) == [k \in 1..(to - from) |-> DataByte(buffer, from + k - 1)]
Payload(buffer) == DataSeq(buffer, 0, buffer.len)

(***************************************************************************)
(* The flash device (FlashTrait, as implemented by the tests' flash_impl). *)
(***************************************************************************)
DevRead(f, address, len) == [k \in 1..len |-> f[address + k - 1]]

DevErase(f, address) ==
  [a \in DOMAIN f |-> IF a >= address /\ a < address + PAGE_SIZE
                      THEN ERASED_VALUE ELSE f[a]]

\* number of bytes the device programs for a write of len bytes
WrittenLen(len) == IF len = 0 THEN 0 ELSE (((len - 1) \div WORD_SIZE) + 1) * WORD_SIZE

\* data lands at address; the padding up to the word boundary is undefined
DevWrite(f, address, data, pad) ==
  [a \in DOMAIN f |->
     IF a >= address /\ a < address + Len(data) THEN data[a - address + 1]
     ELSE IF a >= address /\ a < address + WrittenLen(Len(data)) /\ pad >= 0 THEN pad
     ELSE f[a]]

EraseOp(address) == [op |-> "erase", addr |-> address, data |-> <<>>]
WriteOp(address, data) == [op |-> "write", addr |-> address, data |-> data]

ApplyOp(f, o, pad) ==
  IF o.op = "erase" THEN DevErase(f, o.addr) ELSE DevWrite(f, o.addr, o.data, pad)

RECURSIVE ApplyOps(_, _, _)
ApplyOps(f, ops, pad) ==
  IF ops = <<>> THEN f ELSE ApplyOps(ApplyOp(f, Head(ops), pad), Tail(ops), pad)

(***************************************************************************)
(* Scanner.                                                                *)
(***************************************************************************)
read_header(f, position) == parse_header(DevRead(f, position, HEADER_SIZE))

\* mutant: keeps the first record of the file instead of the last
RECURSIVE find_loop_first(_, _, _, _)
find_loop_first(f, file_number, position, found) ==
  LET Body(h) ==
        LET found2 == IF h.number = file_number /\ found.none
                      THEN [none |-> FALSE, offset |-> position, size |-> h.size]
                      ELSE found
        IN IF h.number = END_OF_STORE
           THEN [err |-> "none", found |-> found, position |-> position]
           ELSE IF position + HEADER_SIZE + h.size > SIZE
           THEN [err |-> "CorruptData", found |-> found2, position |-> position]
           ELSE find_loop_first(f, file_number, position + round(HEADER_SIZE + h.size), found2)
  IN IF ~(position < SIZE)
     THEN [err |-> "none", found |-> found, position |-> position]
     ELSE Body(read_header(f, position))

\* mutant: validates the length only of the records of the file looked for
RECURSIVE find_loop_lenient(_, _, _, _)
find_loop_lenient(f, file_number, position, found) ==
  LET Body(h) ==
        LET found2 == IF h.number = file_number
                      THEN [none |-> FALSE, offset |-> position, size |-> h.size]
                      ELSE found
        IN IF h.number = END_OF_STORE
           THEN [err |-> "none", found |-> found, position |-> position]
           ELSE IF h.number = file_number /\ position + HEADER_SIZE + h.size > SIZE
           THEN [err |-> "CorruptData", found |-> found2, position |-> position]
           ELSE find_loop_lenient(f, file_number, position + round(HEADER_SIZE + h.size), found2)
  IN IF ~(position < SIZE)
     THEN [err |-> "none", found |-> found, position |-> position]
     ELSE Body(read_header(f, position))

\* the while loop of find; found is Option<(position, size)>
RECURSIVE find_loop(_, _, _, _)
find_loop(f, file_number, position, found) ==
  LET Body(h) ==
        LET found2 == IF h.number = file_number
                      THEN [none |-> FALSE, offset |-> position, size |-> h.size]
                      ELSE found
        IN IF h.number = END_OF_STORE
           THEN [err |-> "none", found |-> found, position |-> position]
           ELSE IF position + HEADER_SIZE + h.size > SIZE
           THEN [err |-> "CorruptData", found |-> found2, position |-> position]
           ELSE find_loop(f, file_number, position + round(HEADER_SIZE + h.size), found2)
  IN IF ~(position < SIZE)
     THEN [err |-> "none", found |-> found, position |-> position]
     ELSE Body(read_header(f, position))

\* file_number is a number or None (unwrap_or(0xFF))
find(f, file_number) ==
  LET Match(r) ==
        IF r.err # "none" THEN [kind |-> "Err", err |-> r.err]
        ELSE IF ~r.found.none
        THEN [kind |-> "Found", offset |-> r.found.offset, size |-> r.found.size]
        ELSE [kind |-> "NotFound", position |-> r.position]
  IN Match(find_loop(f, IF file_number = None THEN END_OF_STORE ELSE file_number,
                     0, NotYetFound))

end_of_store(f) ==
  LET Match(r) == IF r.kind = "Err" THEN [err |-> r.err, position |-> 0]
                  ELSE [err |-> "none", position |-> r.position]
  IN Match(find(f, None))

(***************************************************************************)
(* read_file: the result kind and the bytes returned.                      *)
(***************************************************************************)
\* mutant: also refuses a buffer of exactly the payload's length
read_file_strict(f, file_number, buffer_len) ==
  LET Match(r) ==
        IF r.kind = "Err" THEN [result |-> r.err, data |-> <<>>]
        ELSE IF r.kind = "Found"
        THEN IF buffer_len <= r.size
             THEN [result |-> "BufferTooSmall", data |-> <<>>]
             ELSE [result |-> "Ok", data |-> DevRead(f, r.offset + HEADER_SIZE, r.size)]
        ELSE [result |-> "NotFound", data |-> <<>>]
  IN IF file_number = END_OF_STORE THEN [result |-> "panic", data |-> <<>>]
     ELSE Match(find(f, file_number))

read_file(f, file_number, buffer_len) ==
  LET Match(r) ==
        IF r.kind = "Err" THEN [result |-> r.err, data |-> <<>>]
        ELSE IF r.kind = "Found"
        THEN IF buffer_len < r.size
             THEN [result |-> "BufferTooSmall", data |-> <<>>]
             ELSE [result |-> "Ok", data |-> DevRead(f, r.offset + HEADER_SIZE, r.size)]
        ELSE [result |-> "NotFound", data |-> <<>>]
  IN IF file_number = END_OF_STORE THEN [result |-> "panic", data |-> <<>>]
     ELSE Match(find(f, file_number))

(***************************************************************************)
(* used_space_except / used_space: one scan filling a 255-entry array.     *)
(***************************************************************************)
\* let mut sizes = [0; 255]
ZeroSizes == [i \in 0..(NUM_FILES - 1) |-> 0]

\* mutant: adds the slot of every record to its number's entry, stale ones too
RECURSIVE used_space_loop_add(_, _, _, _)
used_space_loop_add(f, position, sizes, seen) ==
  LET Body(h) ==
        IF h.number = END_OF_STORE THEN [err |-> "none", sizes |-> sizes, seen |-> seen]
        ELSE IF position + HEADER_SIZE + h.size > SIZE
        THEN [err |-> "CorruptData", sizes |-> sizes, seen |-> seen]
        ELSE used_space_loop_add(f, position + round(HEADER_SIZE + h.size),
                                 [sizes EXCEPT ![h.number] = @ + round(HEADER_SIZE + h.size)],
                                 seen \cup {h.number})
  IN IF ~(position < SIZE) THEN [err |-> "none", sizes |-> sizes, seen |-> seen]
     ELSE Body(read_header(f, position))

\* seen: the indices of sizes assigned so far (all other entries are still 0)
RECURSIVE used_space_loop(_, _, _, _)
used_space_loop(f, position, sizes, seen) ==
  LET Body(h) ==
        IF h.number = END_OF_STORE THEN [err |-> "none", sizes |-> sizes, seen |-> seen]
        ELSE IF position + HEADER_SIZE + h.size > SIZE
        THEN [err |-> "CorruptData", sizes |-> sizes, seen |-> seen]
        ELSE used_space_loop(f, position + round(HEADER_SIZE + h.size),
                             [sizes EXCEPT ![h.number] = round(HEADER_SIZE + h.size)],
                             seen \cup {h.number})
  IN IF ~(position < SIZE) THEN [err |-> "none", sizes |-> sizes, seen |-> seen]
     ELSE Body(read_header(f, position))

\* sizes.iter().sum(): the entries never assigned add 0
RECURSIVE SumOver(_, _)
SumOver(arr, idx) ==
  IF idx = {} THEN 0
  ELSE LET i == CHOOSE j \in idx : TRUE IN arr[i] + SumOver(arr, idx \ {i})

\* mutant: does not leave out the file that is about to be overwritten
used_space_except_all(f, file_number) ==
  LET Finish(r) ==
        IF r.err # "none" THEN [err |-> r.err, used |-> 0]
        ELSE [err |-> "none", used |-> SumOver(r.sizes, r.seen)]
  IN Finish(used_space_loop(f, 0, ZeroSizes, {}))

used_space_except(f, file_number) ==
  LET Finish(r) ==
        IF r.err # "none" THEN [err |-> r.err, used |-> 0]
        ELSE [err |-> "none",
              used |-> SumOver(IF file_number = None THEN r.sizes
                               ELSE [r.sizes EXCEPT ![file_number] = 0], r.seen)]
  IN Finish(used_space_loop(f, 0, ZeroSizes, {}))

used_space(f) == used_space_except(f, None)

(***************************************************************************)
(* generate_file_index: offset of the latest record of each file number,   *)
(* usize::MAX (here Absent) when there is none.                            *)
(***************************************************************************)
Absent == -1
\* let mut positions = [usize::MAX; 255]
NoPositions == [i \in 0..(NUM_FILES - 1) |-> Absent]

RECURSIVE file_index_loop(_, _, _)
file_index_loop(f, position, positions) ==
  LET Body(h) ==
        IF h.number = END_OF_STORE THEN [err |-> "none", positions |-> positions]
        ELSE IF position + HEADER_SIZE + h.size > SIZE
        THEN [err |-> "CorruptData", positions |-> positions]
        ELSE file_index_loop(f, position + round(HEADER_SIZE + h.size),
                             [positions EXCEPT ![h.number] = position])
  IN IF ~(position < SIZE) THEN [err |-> "none", positions |-> positions]
     ELSE Body(read_header(f, position))

generate_file_index(f) ==
  file_index_loop(f, 0, NoPositions)

(***************************************************************************)
(* compact_flash_except.  The state of the loop is                         *)
(*   [flash, ops, read_pointer, write_pointer, remaining, err]             *)
(* ops is the list of flash operations issued so far.                      *)
(***************************************************************************)
Issue(st, o, pad) ==
  [st EXCEPT !.flash = ApplyOp(st.flash, o, pad), !.ops = Append(st.ops, o)]

Slice(s, from, len) == [k \in 1..len |-> s[from + k]]

\* the inner while loop over the records that start in this page
RECURSIVE compact_records(_, _, _, _, _, _)
compact_records(st, page, page_buffer, file_index, except_file_number, pad) ==
  LET read_pointer_in_page == st.read_pointer - page
      remaining_len == PAGE_SIZE - read_pointer_in_page
      Body(h, entry_size, entry_size_on_this_page) ==
        LET entry_size_on_next_page == entry_size - entry_size_on_this_page
            discard_file_entry ==
               \/ file_index[h.number] # st.read_pointer
               \/ h.number = except_file_number
            Advance(st2) ==
               compact_records([st2 EXCEPT !.read_pointer = st.read_pointer + entry_size],
                               page, page_buffer, file_index, except_file_number, pad)
        IN IF h.number = END_OF_STORE
           THEN [st EXCEPT !.read_pointer = SIZE]
           ELSE IF discard_file_entry THEN Advance(st)
           ELSE Advance([Issue(st, WriteOp(st.write_pointer,
                                  Slice(page_buffer, read_pointer_in_page,
                                        entry_size_on_this_page)), pad)
                           EXCEPT !.write_pointer = st.write_pointer + entry_size_on_this_page,
                                  !.remaining = entry_size_on_next_page])
      Parsed(h) == Body(h, round(HEADER_SIZE + h.size),
                        Min(round(HEADER_SIZE + h.size), remaining_len))
  IN IF st.err # "none" \/ ~(st.read_pointer < page + PAGE_SIZE) THEN st
     ELSE IF st.remaining # 0 THEN [st EXCEPT !.err = "panic"]
     ELSE IF read_pointer_in_page < 0 \/ remaining_len < HEADER_SIZE
     THEN [st EXCEPT !.err = "panic"]
     ELSE Parsed(parse_header(Slice(page_buffer, read_pointer_in_page, HEADER_SIZE)))

\* mutant: skips the tail of a straddling record
copy_remaining_lost(st, page_buffer, pad) ==
  IF st.remaining > 0
  THEN LET copy_from_this_page == Min(st.remaining, PAGE_SIZE)
       IN [st EXCEPT !.write_pointer = st.write_pointer + copy_from_this_page,
                     !.remaining = st.remaining - copy_from_this_page]
  ELSE st

\* mutant: writes the tail but leaves write_pointer where it was
copy_remaining_no_advance(st, page_buffer, pad) ==
  IF st.remaining > 0
  THEN LET copy_from_this_page == Min(st.remaining, PAGE_SIZE)
       IN [Issue(st, WriteOp(st.write_pointer, Slice(page_buffer, 0, copy_from_this_page)), pad)
             EXCEPT !.remaining = st.remaining - copy_from_this_page]
  ELSE st

\* the tail of a record that straddles into this page
copy_remaining(st, page_buffer, pad) ==
  IF st.remaining > 0
  THEN LET copy_from_this_page == Min(st.remaining, PAGE_SIZE)
       IN [Issue(st, WriteOp(st.write_pointer, Slice(page_buffer, 0, copy_from_this_page)), pad)
             EXCEPT !.write_pointer = st.write_pointer + copy_from_this_page,
                    !.remaining = st.remaining - copy_from_this_page]
  ELSE st

\* mutant: forgets to copy the tail of a straddling record
compact_page_no_tail(st, page, file_index, except_file_number, pad) ==
  LET Body(page_buffer) ==
        compact_records(Issue(st, EraseOp(page), pad),
                        page, page_buffer, file_index, except_file_number, pad)
  IN Body(DevRead(st.flash, page, PAGE_SIZE))

\* mutant: reads the page into the RAM buffer after it has erased it
compact_page_erase_first(st, page, file_index, except_file_number, pad) ==
  LET Body(erased) ==
        compact_records(copy_remaining(erased, DevRead(erased.flash, page, PAGE_SIZE), pad),
                        page, DevRead(erased.flash, page, PAGE_SIZE),
                        file_index, except_file_number, pad)
  IN Body(Issue(st, EraseOp(page), pad))

\* one iteration of the for loop over the pages
compact_page(st, page, file_index, except_file_number, pad) ==
  LET Body(page_buffer) ==
        compact_records(copy_remaining(Issue(st, EraseOp(page), pad), page_buffer, pad),
                        page, page_buffer, file_index, except_file_number, pad)
  IN Body(DevRead(st.flash, page, PAGE_SIZE))

\* mutant: leaves the loop once the old end-of-store was passed
RECURSIVE compact_pages_early(_, _, _, _, _)
compact_pages_early(st, page, file_index, except_file_number, pad) ==
  IF st.err # "none" \/ ~(page < SIZE) \/ (page > 0 /\ st.read_pointer = SIZE) THEN st
  ELSE compact_pages_early(compact_page(st, page, file_index, except_file_number, pad),
                           page + PAGE_SIZE, file_index, except_file_number, pad)

RECURSIVE compact_pages(_, _, _, _, _)
compact_pages(st, page, file_index, except_file_number, pad) ==
  IF st.err # "none" \/ ~(page < SIZE) THEN st
  ELSE compact_pages(compact_page(st, page, file_index, except_file_number, pad),
                     page + PAGE_SIZE, file_index, except_file_number, pad)

\* mutant: forgets to leave out the file that is about to be rewritten
compact_flash_except_keep(f, except_file_number, pad) ==
  LET st0 == [flash |-> f, ops |-> <<>>, read_pointer |-> 0, write_pointer |-> 0,
              remaining |-> 0, err |-> "none"]
      Run(idx) == IF idx.err # "none" THEN [st0 EXCEPT !.err = idx.err]
                  ELSE compact_pages(st0, 0, idx.positions, None, pad)
  IN Run(generate_file_index(f))

compact_flash_except(f, except_file_number, pad) ==
  LET st0 == [flash |-> f, ops |-> <<>>, read_pointer |-> 0, write_pointer |-> 0,
              remaining |-> 0, err |-> "none"]
      Run(idx) == IF idx.err # "none" THEN [st0 EXCEPT !.err = idx.err]
                  ELSE compact_pages(st0, 0, idx.positions, except_file_number, pad)
  IN Run(generate_file_index(f))

(***************************************************************************)
(* The appender: the flash writes that place header and payload at         *)
(* end_of_store.                                                           *)
(***************************************************************************)
\* temp = [0u8; 32]; word_buffer = header ++ start of the payload ++ zeros
word_buffer(header, buffer) ==
  [k \in 1..WORD_SIZE |->
     IF k <= HEADER_SIZE THEN header[k]
     ELSE IF k - HEADER_SIZE <= buffer.len THEN DataByte(buffer, k - HEADER_SIZE - 1)
     ELSE 0]

\* mutant: issues the second write also when the record fits into the first word
append_ops_two_writes(eos, file_number, buffer) ==
  LET Writes(header) ==
        IF WORD_SIZE > HEADER_SIZE
        THEN << WriteOp(eos, word_buffer(header, buffer)),
                WriteOp(eos + WORD_SIZE,
                        DataSeq(buffer, Min(WORD_SIZE - HEADER_SIZE, buffer.len), buffer.len)) >>
        ELSE << WriteOp(eos, header), WriteOp(eos + HEADER_SIZE, Payload(buffer)) >>
  IN Writes(make_header(file_number, buffer.len))

\* mutant: places the record one slot behind end_of_store
append_ops_gap(eos, file_number, buffer) ==
  LET Writes(header) ==
        IF WORD_SIZE > HEADER_SIZE
        THEN IF WORD_SIZE < buffer.len + HEADER_SIZE
             THEN << WriteOp(eos + Slot, word_buffer(header, buffer)),
                     WriteOp(eos + Slot + WORD_SIZE,
                             DataSeq(buffer, WORD_SIZE - HEADER_SIZE, buffer.len)) >>
             ELSE << WriteOp(eos + Slot, word_buffer(header, buffer)) >>
        ELSE << WriteOp(eos + Slot, header),
                WriteOp(eos + Slot + HEADER_SIZE, Payload(buffer)) >>
  IN Writes(make_header(file_number, buffer.len))

append_ops(eos, file_number, buffer) ==
  LET Writes(header) ==
        IF WORD_SIZE > HEADER_SIZE
        THEN IF WORD_SIZE < buffer.len + HEADER_SIZE
             THEN << WriteOp(eos, word_buffer(header, buffer)),
                     WriteOp(eos + WORD_SIZE,
                             DataSeq(buffer, WORD_SIZE - HEADER_SIZE, buffer.len)) >>
             ELSE << WriteOp(eos, word_buffer(header, buffer)) >>
        ELSE << WriteOp(eos, header), WriteOp(eos + HEADER_SIZE, Payload(buffer)) >>
  IN Writes(make_header(file_number, buffer.len))

(***************************************************************************)
(* write_file: result, the operations issued, and the flash after them.    *)
(***************************************************************************)
WriteResult(result, f, ops, compacted, eos) ==
  [result |-> result, flash |-> f, ops |-> ops, compacted |-> compacted, eos |-> eos]

\* mutant: compacts before it knows that the record will fit
write_file_compact_first(f, file_number, buffer, pad) ==
  LET Place(f1, ops1, compacted, eos) ==
        LET Done(ops2) == WriteResult("Ok", ApplyOps(f1, ops2, pad), ops1 \o ops2,
                                      compacted, eos)
        IN IF buffer.len > MAX_FILE_SIZE
           THEN WriteResult("panic", f1, ops1, compacted, eos)
           ELSE Done(append_ops(eos, file_number, buffer))
      Compacted(e, u, c) ==
        IF c.err # "none" THEN WriteResult(c.err, c.flash, c.ops, TRUE, 0)
        ELSE IF HEADER_SIZE + buffer.len > SIZE - u.used
        THEN WriteResult("NoSpaceLeft", c.flash, c.ops, TRUE, e.position)
        ELSE Place(c.flash, c.ops, TRUE, c.write_pointer)
      Measured(e, u) ==
        IF u.err # "none" THEN WriteResult(u.err, f, <<>>, FALSE, 0)
        ELSE Compacted(e, u, compact_flash_except(f, file_number, pad))
      Scanned(e) ==
        IF e.err # "none" THEN WriteResult(e.err, f, <<>>, FALSE, 0)
        ELSE IF e.position + HEADER_SIZE + buffer.len > SIZE
        THEN Measured(e, used_space_except(f, file_number))
        ELSE Place(f, <<>>, FALSE, e.position)
  IN IF file_number = END_OF_STORE THEN WriteResult("panic", f, <<>>, FALSE, 0)
     ELSE Scanned(end_of_store(f))

\* mutant: the fit test at the tail forgets the header
write_file_fit_no_header(f, file_number, buffer, pad) ==
  LET Place(f1, ops1, compacted, eos) ==
        LET Done(ops2) == WriteResult("Ok", ApplyOps(f1, ops2, pad), ops1 \o ops2,
                                      compacted, eos)
        IN IF buffer.len > MAX_FILE_SIZE
           THEN WriteResult("panic", f1, ops1, compacted, eos)
           ELSE Done(append_ops(eos, file_number, buffer))
      Compacted(c) ==
        IF c.err # "none" THEN WriteResult(c.err, c.flash, c.ops, TRUE, 0)
        ELSE Place(c.flash, c.ops, TRUE, c.write_pointer)
      Measured(e, u) ==
        IF u.err # "none" THEN WriteResult(u.err, f, <<>>, FALSE, 0)
        ELSE IF HEADER_SIZE + buffer.len > SIZE - u.used
        THEN WriteResult("NoSpaceLeft", f, <<>>, FALSE, e.position)
        ELSE Compacted(compact_flash_except(f, file_number, pad))
      Scanned(e) ==
        IF e.err # "none" THEN WriteResult(e.err, f, <<>>, FALSE, 0)
        ELSE IF e.position + buffer.len > SIZE
        THEN Measured(e, used_space_except(f, file_number))
        ELSE Place(f, <<>>, FALSE, e.position)
  IN IF file_number = END_OF_STORE THEN WriteResult("panic", f, <<>>, FALSE, 0)
     ELSE Scanned(end_of_store(f))

\* mutant: takes a record that ends exactly at SIZE as not fitting at the tail
write_file_fit_strict(f, file_number, buffer, pad) ==
  LET Place(f1, ops1, compacted, eos) ==
        LET Done(ops2) == WriteResult("Ok", ApplyOps(f1, ops2, pad), ops1 \o ops2,
                                      compacted, eos)
        IN IF buffer.len > MAX_FILE_SIZE
           THEN WriteResult("panic", f1, ops1, compacted, eos)
           ELSE Done(append_ops(eos, file_number, buffer))
      Compacted(c) ==
        IF c.err # "none" THEN WriteResult(c.err, c.flash, c.ops, TRUE, 0)
        ELSE Place(c.flash, c.ops, TRUE, c.write_pointer)
      Measured(e, u) ==
        IF u.err # "none" THEN WriteResult(u.err, f, <<>>, FALSE, 0)
        ELSE IF HEADER_SIZE + buffer.len > SIZE - u.used
        THEN WriteResult("NoSpaceLeft", f, <<>>, FALSE, e.position)
        ELSE Compacted(compact_flash_except(f, file_number, pad))
      Scanned(e) ==
        IF e.err # "none" THEN WriteResult(e.err, f, <<>>, FALSE, 0)
        ELSE IF e.position + HEADER_SIZE + buffer.len >= SIZE
        THEN Measured(e, used_space_except(f, file_number))
        ELSE Place(f, <<>>, FALSE, e.position)
  IN IF file_number = END_OF_STORE THEN WriteResult("panic", f, <<>>, FALSE, 0)
     ELSE Scanned(end_of_store(f))

write_file(f, file_number, buffer, pad) ==
  LET Place(f1, ops1, compacted, eos) ==
        LET Done(ops2) == WriteResult("Ok", ApplyOps(f1, ops2, pad), ops1 \o ops2,
                                      compacted, eos)
        IN IF buffer.len > MAX_FILE_SIZE
           THEN WriteResult("panic", f1, ops1, compacted, eos)
           ELSE Done(append_ops(eos, file_number, buffer))
      Compacted(c) ==
        IF c.err # "none" THEN WriteResult(c.err, c.flash, c.ops, TRUE, 0)
        ELSE Place(c.flash, c.ops, TRUE, c.write_pointer)
      Measured(e, u) ==
        IF u.err # "none" THEN WriteResult(u.err, f, <<>>, FALSE, 0)
        ELSE IF HEADER_SIZE + buffer.len > SIZE - u.used
        THEN WriteResult("NoSpaceLeft", f, <<>>, FALSE, e.position)
        ELSE Compacted(compact_flash_except(f, file_number, pad))
      Scanned(e) ==
        IF e.err # "none" THEN WriteResult(e.err, f, <<>>, FALSE, 0)
        ELSE IF e.position + HEADER_SIZE + buffer.len > SIZE
        THEN Measured(e, used_space_except(f, file_number))
        ELSE Place(f, <<>>, FALSE, e.position)
  IN IF file_number = END_OF_STORE THEN WriteResult("panic", f, <<>>, FALSE, 0)
     ELSE Scanned(end_of_store(f))

(***************************************************************************)
(* initialize_flash: erase every page.                                     *)
(***************************************************************************)
\* mutant: starts at the second page
RECURSIVE initialize_ops_skip(_)
initialize_ops_skip(page) ==
  IF ~(page < SIZE) THEN <<>>
  ELSE (IF page = 0 THEN <<>> ELSE <<EraseOp(page)>>) \o initialize_ops_skip(page + PAGE_SIZE)

\* mutant: the loop over the pages runs up to SIZE inclusive
RECURSIVE initialize_ops_inclusive(_)
initialize_ops_inclusive(page) ==
  IF ~(page <= SIZE) THEN <<>>
  ELSE <<EraseOp(page)>> \o initialize_ops_inclusive(page + PAGE_SIZE)

RECURSIVE initialize_ops(_)
initialize_ops(page) ==
  IF ~(page < SIZE) THEN <<>> ELSE <<EraseOp(page)>> \o initialize_ops(page + PAGE_SIZE)

initialize_flash(f) ==
  LET Done(ops) == [result |-> "Ok", flash |-> ApplyOps(f, ops, 0), ops |-> ops]
  IN Done(initialize_ops(0))

(***************************************************************************)
(* Bookkeeping of the test device: erase counts per page (flash_impl's     *)
(* erase_count) and, per byte, the number of times it was programmed       *)
(* since the last erase of its page.                                       *)
(***************************************************************************)
Pages == 0..((SIZE \div PAGE_SIZE) - 1)

CountOp(ec, o) ==
  IF o.op = "erase" /\ (o.addr \div PAGE_SIZE) \in DOMAIN ec
  THEN [ec EXCEPT ![o.addr \div PAGE_SIZE] = @ + 1]
  ELSE ec

RECURSIVE CountErases(_, _)
CountErases(ec, ops) ==
  IF ops = <<>> THEN ec ELSE CountErases(CountOp(ec, Head(ops)), Tail(ops))

ProgramOp(wc, o) ==
  IF o.op = "erase"
  THEN [a \in DOMAIN wc |-> IF a >= o.addr /\ a < o.addr + PAGE_SIZE THEN 0 ELSE wc[a]]
  ELSE [a \in DOMAIN wc |->
          IF a >= o.addr /\ a < o.addr + WrittenLen(Len(o.data))
          THEN Min(wc[a] + 1, 2) ELSE wc[a]]

RECURSIVE CountWrites(_, _)
CountWrites(wc, ops) ==
  IF ops = <<>> THEN wc ELSE CountWrites(ProgramOp(wc, Head(ops)), Tail(ops))

(***************************************************************************)
(* Inputs.                                                                 *)
(***************************************************************************)
\* two file numbers, and the highest one too on the device whose word is the header
FileNumbers == IF WORD_SIZE = HEADER_SIZE THEN {0, 42, 254} ELSE {0, 42}
\* the padding byte the device programs; Untouched = the device skips it
Untouched == -1
Pads == {Untouched, 0}
\* payloads: empty, one byte (a second content on the devices of two words),
\* and around each slot boundary
Buffers ==
  {[len |-> 0, fill |-> 0], [len |-> 1, fill |-> 255]}
  \cup (IF SIZE = 2 * WORD_SIZE THEN {[len |-> 1, fill |-> 16]} ELSE {})
  \cup { [len |-> k * Slot - HEADER_SIZE + d, fill |-> IF d = 0 THEN 0 ELSE 255] :
            k \in 1..MaxSlots, d \in {0, 1} }
\* the device pads only a write that is not a whole number of words
PadsFor(buffer) ==
  IF (HEADER_SIZE + buffer.len) % WORD_SIZE # 0 THEN Pads ELSE {Untouched}
BufferLens == {1, SIZE}

(***************************************************************************)
(* Flash contents at construction: FlashStore::new takes the device as it  *)
(* is.  The tests start from an erased device or from one with poked       *)
(* headers.                                                                *)
(***************************************************************************)
ErasedFlash == [a \in 0..(SIZE - 1) |-> ERASED_VALUE]

Poke(f, address, bytes) ==
  [a \in DOMAIN f |-> IF a >= address /\ a < address + Len(bytes)
                      THEN bytes[a - address + 1] ELSE f[a]]

\* gracefully_fails_for_corrupt_data: one header overrunning the device by one byte
CorruptFlash1 == Poke(ErasedFlash, 0, make_header(42, SIZE - 3))
\* gracefully_fails_for_corrupt_data2: a valid record, then an overrunning header
CorruptFlash2 ==
  Poke(Poke(ErasedFlash, 0, make_header(0, 4)), round(8), make_header(42, SIZE - 1))
\* overwrite_flash_filling_file: one record that is exactly the device
FillingFlash == Poke(ErasedFlash, 0, make_header(42, SIZE - 4))

InitialFlashes == {ErasedFlash, CorruptFlash1, CorruptFlash2, FillingFlash}

NoFile == [present |-> FALSE, data |-> <<>>]
File(data) == [present |-> TRUE, data |-> data]

\* what the last call was and what it did
\* data: the payload handed to write_file, or the bytes read_file returned;
\* pre_err: what a scan of the flash said before the call;
\* out: the number used_space returned, the pair parse_header returned
Call(op, n, len, buffer_len, result, ops, compacted, eos, data, pre_err, out) ==
  [op |-> op, n |-> n, len |-> len, buffer_len |-> buffer_len,
   result |-> result, ops |-> ops, compacted |-> compacted, eos |-> eos, data |-> data,
   pre_err |-> pre_err, out |-> out]

(***************************************************************************)
(* The state machine.  The caller is the tests' harness (stress_test): a   *)
(* check loop that reads every file and asks for the used space, then one  *)
(* modifying call.  check_pos is the harness's position in the check loop. *)
(***************************************************************************)
RECURSIVE SetToSeq(_)
SetToSeq(S) ==
  IF S = {} THEN <<>>
  ELSE LET m == CHOOSE x \in S : \A y \in S : x <= y IN <<m>> \o SetToSeq(S \ {m})

\* the reads of one check loop: every file, with a short and a long buffer
CheckPlan ==
  LET ns == SetToSeq(FileNumbers)
      bs == SetToSeq(BufferLens)
  IN [i \in 1..(Len(ns) * Len(bs)) |->
        [n |-> ns[((i - 1) \div Len(bs)) + 1], buffer_len |-> bs[((i - 1) % Len(bs)) + 1]]]

NumChecks == Cardinality(FileNumbers) * Cardinality(BufferLens)
\* the reads come first, then one used_space, then the modifying call
Reading == check_pos <= NumChecks
CheckDone == check_pos > NumChecks + 1

Init ==
  /\ dev \in Devices
  /\ flash \in InitialFlashes
  /\ files = [n \in FileNumbers |-> NoFile]
  /\ sinceInit = (flash = ErasedFlash)
  /\ erase_count = [p \in Pages |-> 0]
  /\ wcount = [a \in 0..(SIZE - 1) |-> 0]
  /\ last = Call("new", 0, 0, 0, "Ok", <<>>, FALSE, 0, <<>>, "none", 0)
  /\ check_pos = 1
  /\ crashes = 0

WriteFile(n, buffer, pad) ==
  /\ CheckDone
  /\ \E r \in {write_file(flash, n, buffer, pad)} :
     \E ec \in {CountErases(erase_count, r.ops)} :
       /\ \A p \in Pages : ec[p] <= MaxErase
       /\ flash' = r.flash
       /\ files' = IF r.result = "Ok" THEN [files EXCEPT ![n] = File(Payload(buffer))]
                   ELSE files
       /\ erase_count' = ec
       /\ wcount' = CountWrites(wcount, r.ops)
       /\ last' = Call("write_file", n, buffer.len, 0, r.result, r.ops,
                       r.compacted, r.eos,
                       IF buffer.len > SIZE THEN <<>> ELSE Payload(buffer),
                       end_of_store(flash).err, 0)
       /\ check_pos' = 1
       /\ UNCHANGED <<dev, sinceInit, crashes>>

ReadFile(n, buffer_len) ==
  /\ Reading
  /\ \E r \in {read_file(flash, n, buffer_len)} :
       /\ last' = Call("read_file", n, 0, buffer_len, r.result, <<>>, FALSE, 0, r.data,
                       end_of_store(flash).err, 0)
       /\ check_pos' = check_pos + 1
       /\ UNCHANGED <<dev, flash, files, sinceInit, erase_count, wcount, crashes>>

UsedSpace ==
  /\ check_pos = NumChecks + 1
  /\ \E r \in {used_space(flash)} :
       /\ last' = Call("used_space", 0, 0, 0, IF r.err = "none" THEN "Ok" ELSE r.err,
                       <<>>, FALSE, 0, <<>>, end_of_store(flash).err, r.used)
       /\ check_pos' = check_pos + 1
       /\ UNCHANGED <<dev, flash, files, sinceInit, erase_count, wcount, crashes>>

InitializeFlash ==
  /\ CheckDone
  /\ \E r \in {initialize_flash(flash)} :
     \E ec \in {CountErases(erase_count, r.ops)} :
       /\ \A p \in Pages : ec[p] <= MaxErase
       /\ flash' = r.flash
       /\ files' = [n \in FileNumbers |-> NoFile]
       /\ sinceInit' = TRUE
       /\ erase_count' = ec
       /\ wcount' = CountWrites(wcount, r.ops)
       /\ last' = Call("initialize_flash", 0, 0, 0, r.result, r.ops, FALSE, 0, <<>>,
                       end_of_store(flash).err, 0)
       /\ check_pos' = 1
       /\ UNCHANGED <<dev, crashes>>

Next ==
  \/ CheckDone /\ \E n \in FileNumbers, buffer \in Buffers : \E pad \in PadsFor(buffer) :
                     WriteFile(n, buffer, pad)
  \/ Reading /\ \E c \in {CheckPlan[check_pos]} : ReadFile(c.n, c.buffer_len)
  \/ UsedSpace
  \/ InitializeFlash

Spec == Init /\ [][Next]_vars

(***************************************************************************)
(* Power loss during the append of write_file: only the first k of the     *)
(* flash writes of a write_file that does not compact reach the device.    *)
(***************************************************************************)
WriteFileInterrupted(n, buffer, pad, k) ==
  /\ CheckDone
  /\ crashes < MaxCrash
  /\ \E r \in {write_file(flash, n, buffer, pad)} :
       /\ r.result = "Ok"
       /\ ~r.compacted
       /\ k >= 1 /\ k < Len(r.ops)
       /\ flash' = ApplyOps(flash, SubSeq(r.ops, 1, k), pad)
       /\ wcount' = CountWrites(wcount, SubSeq(r.ops, 1, k))
       /\ last' = Call("write_file_interrupted", n, buffer.len, 0, "PowerLoss",
                       SubSeq(r.ops, 1, k), FALSE, r.eos, Payload(buffer),
                       end_of_store(flash).err, 0)
       /\ check_pos' = 1
       /\ crashes' = crashes + 1
       /\ UNCHANGED <<dev, files, sinceInit, erase_count>>

NextCrash ==
  \/ Next
  \/ \E n \in FileNumbers, buffer \in Buffers, k \in 1..2 : \E pad \in PadsFor(buffer) :
        WriteFileInterrupted(n, buffer, pad, k)

\* power loss is explored on one device of each append policy
CrashDevices == {d \in Devices : d.WORD_SIZE \in {2, 8}}

InitCrash == Init /\ dev \in CrashDevices

SpecCrash == InitCrash /\ [][NextCrash]_vars

(***************************************************************************)
(* A caller that also hands write_file a payload longer than a header can  *)
(* describe (make_header's assertion, size <= 0xFFFFFF).                   *)
(***************************************************************************)
OversizeBuffer == [len |-> MAX_FILE_SIZE + 1, fill |-> 0]

NextOversize ==
  \/ Next
  \/ \E n \in FileNumbers : WriteFile(n, OversizeBuffer, Untouched)

SpecOversize == Init /\ [][NextOversize]_vars

(***************************************************************************)
(* The record codec on its own: make_header, parse_header of its result,   *)
(* and read_header on an erased flash, for every byte a device may erase   *)
(* to.                                                                     *)
(***************************************************************************)
HeaderDevices ==
  { [SIZE |-> 16, PAGE_SIZE |-> 8, WORD_SIZE |-> 1, ERASED_VALUE |-> e] : e \in 0..(U8 - 1) }
HeaderNumbers == {0, 1, 42, 127, 128, 254}
HeaderSizes == {0, 1, 255, 256, 65535, 65536, MAX_FILE_SIZE}

InitHeader ==
  /\ dev \in HeaderDevices
  /\ flash = ErasedFlash
  /\ files = [n \in FileNumbers |-> NoFile]
  /\ sinceInit = TRUE
  /\ erase_count = [p \in Pages |-> 0]
  /\ wcount = [a \in 0..(SIZE - 1) |-> 0]
  /\ last = Call("new", 0, 0, 0, "Ok", <<>>, FALSE, 0, <<>>, "none", 0)
  /\ check_pos = 1
  /\ crashes = 0

MakeHeader(number, size) ==
  /\ last.op = "new"
  /\ last' = Call("make_header", number, size, 0, "Ok", <<>>, FALSE, 0,
                  make_header(number, size), "none", 0)
  /\ UNCHANGED <<dev, flash, files, sinceInit, erase_count, wcount, check_pos, crashes>>

ParseHeader ==
  /\ last.op = "make_header"
  /\ last' = Call("parse_header", last.n, last.len, 0, "Ok", <<>>, FALSE, 0,
                  last.data, "none", parse_header(last.data))
  /\ UNCHANGED <<dev, flash, files, sinceInit, erase_count, wcount, check_pos, crashes>>

ReadHeader ==
  /\ last.op = "new"
  /\ last' = Call("read_header", 0, 0, 0, "Ok", <<>>, FALSE, 0,
                  DevRead(flash, 0, HEADER_SIZE), "none", read_header(flash, 0))
  /\ UNCHANGED <<dev, flash, files, sinceInit, erase_count, wcount, check_pos, crashes>>

NextHeader ==
  \/ \E number \in HeaderNumbers, size \in HeaderSizes : MakeHeader(number, size)
  \/ ParseHeader
  \/ ReadHeader

SpecHeader == InitHeader /\ [][NextHeader]_vars

(***************************************************************************)
(* What the claims speak about: the records a forward scan meets, the      *)
(* live record of a file number, the space the live records take.          *)
(***************************************************************************)
SlotSize(size) == ((HEADER_SIZE + size + Slot - 1) \div Slot) * Slot

RECURSIVE RecordsFrom(_, _)
RecordsFrom(f, p) ==
  LET Rec(h) ==
        IF h.number = END_OF_STORE THEN <<>>
        ELSE <<[offset |-> p, number |-> h.number, size |-> h.size]>> \o
             (IF p + HEADER_SIZE + h.size > SIZE THEN <<>>
              ELSE RecordsFrom(f, p + SlotSize(h.size)))
  IN IF p >= SIZE THEN <<>> ELSE Rec(read_header(f, p))

Records(f) == RecordsFrom(f, 0)

Overruns(rec) == rec.offset + HEADER_SIZE + rec.size > SIZE
AnyOverrun(recs) == \E i \in DOMAIN recs : Overruns(recs[i])
IsCorrupt(f) == AnyOverrun(Records(f))
NumbersIn(recs) == {recs[i].number : i \in DOMAIN recs}

\* the indices in recs of the records numbered n
Versions(recs, n) == {i \in DOMAIN recs : recs[i].number = n}
HasLive(recs, n) == Versions(recs, n) # {}
Live(recs, n) == recs[CHOOSE i \in Versions(recs, n) : \A j \in Versions(recs, n) : j <= i]
LivePayload(f, rec) == DevRead(f, rec.offset + HEADER_SIZE, rec.size)

\* the live payload of n as a file, NoFile when there is no record
LiveFile(f, recs, n) ==
  IF HasLive(recs, n) THEN File(LivePayload(f, Live(recs, n))) ELSE NoFile

RECURSIVE SumSlots(_, _, _)
SumSlots(recs, numbers, except) ==
  IF numbers = {} THEN 0
  ELSE LET m == CHOOSE x \in numbers : TRUE
       IN (IF m # except /\ HasLive(recs, m) THEN SlotSize(Live(recs, m).size) ELSE 0)
          + SumSlots(recs, numbers \ {m}, except)

\* the sum of the slot sizes of the live records of all numbers but except
LiveSpace(recs, except) == SumSlots(recs, NumbersIn(recs), except)
LiveSpaceExcept(f, except) == LiveSpace(Records(f), except)

AllNumbers == 0..(NUM_FILES - 1)
\* the file numbers the model writes, and one that is never written
ProbeNumbers == FileNumbers \cup {2}
OpsOf(kind) == {i \in DOMAIN last.ops : last.ops[i].op = kind}

(***************************************************************************)
(* C1: from an initialized flash, read_file(n, buf) with a buffer at       *)
(* least as long as the payload returns exactly the payload of the most    *)
(* recent write_file(n, D) that returned Ok.                               *)
(***************************************************************************)
C1_LastWriteWins ==
  sinceInit =>
    /\ \A n \in FileNumbers :
         files[n].present =>
           \A buffer_len \in {Len(files[n].data), SIZE} :
             read_file(flash, n, buffer_len) = [result |-> "Ok", data |-> files[n].data]
    /\ (last.op = "read_file" /\ files[last.n].present
          /\ last.buffer_len >= Len(files[last.n].data))
         => (last.result = "Ok" /\ last.data = files[last.n].data)

\* a read returned the later of two payloads written to a file, after a compaction
C1_Witness ==
  /\ sinceInit
  /\ last.op = "read_file" /\ last.result = "Ok" /\ Len(last.data) >= 1
  /\ erase_count[0] >= 1
  /\ Cardinality(Versions(Records(flash), last.n)) >= 2

(***************************************************************************)
(* C2: read_file(n) returns NotFound iff no write_file(n) returned Ok      *)
(* since the last initialize_flash; after initialize_flash from any flash  *)
(* content every file number 0..254 reads NotFound.                        *)
(***************************************************************************)
C2_Absence ==
  /\ sinceInit =>
       /\ \A n \in FileNumbers, buffer_len \in BufferLens :
            (read_file(flash, n, buffer_len).result = "NotFound") <=> ~files[n].present
       /\ last.op = "read_file" =>
            ((last.result = "NotFound") <=> ~files[last.n].present)
  /\ last.op = "initialize_flash" =>
       \A n \in AllNumbers, buffer_len \in BufferLens :
          read_file(flash, n, buffer_len).result = "NotFound"

\* initialize_flash ran on a corrupt flash
C2_Witness ==
  /\ last.op = "initialize_flash" /\ last.pre_err = "CorruptData"
  /\ read_file(flash, 42, SIZE).result = "NotFound"

(***************************************************************************)
(* C3: on a non-corrupt store write_file(n, data) returns NoSpaceLeft iff  *)
(* 4 + len(data) > SIZE - (slot sizes of the live records of the other     *)
(* file numbers), and Ok in every other case.                              *)
(***************************************************************************)
C3_NoSpaceLeftIff ==
  [][(last'.op = "write_file" /\ ~IsCorrupt(flash) /\ last'.len <= MAX_FILE_SIZE) =>
        IF HEADER_SIZE + last'.len > SIZE - LiveSpaceExcept(flash, last'.n)
        THEN last'.result = "NoSpaceLeft"
        ELSE last'.result = "Ok"]_vars

\* a write was refused although the same payload fits when written to another number
C3_Witness ==
  /\ last.op = "write_file" /\ last.result = "NoSpaceLeft"
  /\ \E m \in FileNumbers \ {last.n} :
        write_file(flash, m, [len |-> last.len, fill |-> 0], Untouched).result = "Ok"

(***************************************************************************)
(* C4: a write_file that returns NoSpaceLeft issues no erase and no        *)
(* write; the flash is unchanged and every file reads back as before.      *)
(***************************************************************************)
C4_NoSpaceLeftNoEffect ==
  [][(last'.op = "write_file" /\ last'.result = "NoSpaceLeft") =>
        /\ last'.ops = <<>>
        /\ flash' = flash
        /\ erase_count' = erase_count
        /\ wcount' = wcount
        /\ \A n \in FileNumbers :
              read_file(flash', n, SIZE) = read_file(flash, n, SIZE)]_vars

\* a refused overwrite of a file that exists
C4_Witness ==
  /\ last.op = "write_file" /\ last.result = "NoSpaceLeft"
  /\ HasLive(Records(flash), last.n)
  /\ Cardinality(NumbersIn(Records(flash))) >= 2

(***************************************************************************)
(* C5: when the scan reaches a header whose record overruns the device,    *)
(* every read_file and write_file, for every file number, returns          *)
(* CorruptData, and none of them erases or writes.                         *)
(***************************************************************************)
C5_CorruptData ==
  /\ IsCorrupt(flash) =>
       /\ \A n \in AllNumbers, buffer_len \in BufferLens :
            read_file(flash, n, buffer_len).result = "CorruptData"
       /\ \A n \in AllNumbers, buffer \in Buffers, pad \in Pads :
            write_file(flash, n, buffer, pad) =
              WriteResult("CorruptData", flash, <<>>, FALSE, 0)
  /\ (last.pre_err = "CorruptData" /\ last.op \in {"read_file", "write_file"}) =>
       (last.result = "CorruptData" /\ last.ops = <<>>)

\* write_file to the number of a valid record that lies before the corrupt one
C5_Witness ==
  /\ flash = CorruptFlash2
  /\ last.op = "write_file" /\ last.n = 0 /\ last.result = "CorruptData"

(***************************************************************************)
(* C6: a compaction run by write_file(e, ..) leaves, for every file        *)
(* number m # e that had a live record, a live record with the same        *)
(* length and the same payload.                                            *)
(***************************************************************************)
C6_CompactionPreserves ==
  [][(last'.op = "write_file" /\ last'.compacted /\ last'.result = "Ok") =>
        \A pad \in Pads :
          \E c \in {compact_flash_except(flash, last'.n, pad)} :
          \E before \in {Records(flash)}, after \in {Records(c.flash)},
             final \in {Records(flash')} :
            /\ c.err = "none"
            /\ \A m \in NumbersIn(before) \ {last'.n} :
                 /\ LiveFile(c.flash, after, m) = LiveFile(flash, before, m)
                 /\ LiveFile(flash', final, m) = LiveFile(flash, before, m)]_vars

\* a compaction kept a record that spans more than two pages
C6_Witness ==
  /\ last.op = "write_file" /\ last.compacted /\ last.result = "Ok"
  /\ \E m \in FileNumbers \ {last.n} :
       /\ HasLive(Records(flash), m)
       /\ SlotSize(Live(Records(flash), m).size) > 2 * PAGE_SIZE

(***************************************************************************)
(* C7: when a write_file that does not compact is cut by a power loss      *)
(* between two of its flash writes, no scan finds the new record's header  *)
(* while its payload is not completely written: either the new record is   *)
(* not visible, or it is there with its whole payload.                     *)
(***************************************************************************)
NewRecordWhole(recs) ==
  \A i \in DOMAIN recs :
     recs[i].offset = last.eos =>
        /\ recs[i].number = last.n
        /\ recs[i].size = last.len
        /\ LivePayload(flash, recs[i]) = last.data

C7_NoTornRecord ==
  last.op = "write_file_interrupted" => NewRecordWhole(Records(flash))

(***************************************************************************)
(* C8: every write the store issues has an address that is a multiple of   *)
(* WORD_SIZE and every erase an address that is a multiple of PAGE_SIZE,   *)
(* for every WORD_SIZE in {1, 2, 4, 8, 16, 32}.                            *)
(***************************************************************************)
C8_Alignment ==
  /\ \A i \in OpsOf("write") : last.ops[i].addr % WORD_SIZE = 0
  /\ \A i \in OpsOf("erase") : last.ops[i].addr % PAGE_SIZE = 0

\* a compaction on the 16-byte-word device that wrote a record and its tail on the
\* next page, followed by the one-word append
C8_Witness ==
  /\ WORD_SIZE = 16
  /\ last.op = "write_file" /\ last.compacted /\ last.result = "Ok"
  /\ last.len <= WORD_SIZE - HEADER_SIZE
  /\ Cardinality(OpsOf("write")) >= 3

(***************************************************************************)
(* C9: from an initialized flash the store never programs a flash byte     *)
(* twice without an erase of its page in between.                          *)
(***************************************************************************)
C9_NoRewrite == sinceInit => \A a \in DOMAIN wcount : wcount[a] <= 1

\* a compaction rewrote the device and the append followed it
C9_Witness ==
  /\ sinceInit
  /\ last.op = "write_file" /\ last.compacted /\ last.result = "Ok"
  /\ Cardinality({a \in DOMAIN wcount : wcount[a] = 1}) > PAGE_SIZE

(***************************************************************************)
(* C10: every compaction and every initialize_flash erases every page      *)
(* exactly once, so all pages always have the same erase count.            *)
(***************************************************************************)
C10_UniformErase ==
  /\ (last.op = "initialize_flash" \/ (last.op = "write_file" /\ last.compacted)) =>
       \A p \in Pages :
          Cardinality({i \in OpsOf("erase") : last.ops[i].addr = p * PAGE_SIZE}) = 1
  /\ Cardinality(OpsOf("erase")) \in {0, Cardinality(Pages)}
  /\ \A p, q \in Pages : erase_count[p] = erase_count[q]

\* a compaction of a device whose records end before the last page
C10_Witness ==
  /\ last.op = "write_file" /\ last.compacted /\ last.result = "Ok"
  /\ erase_count[0] >= 1
  /\ end_of_store(flash).position <= SIZE - PAGE_SIZE

(***************************************************************************)
(* C11: on a non-corrupt store used_space() is the sum of the slot sizes   *)
(* round_up(4 + length, max(WORD_SIZE, 4)) of the live records, one per    *)
(* file number; stale records add nothing; used_space_except(n) is the     *)
(* same sum without file number n.                                         *)
(***************************************************************************)
C11_UsedSpace ==
  ~IsCorrupt(flash) =>
    \E recs \in {Records(flash)} :
      /\ used_space(flash) = [err |-> "none", used |-> LiveSpace(recs, None)]
      /\ \A n \in ProbeNumbers :
            used_space_except(flash, n) = [err |-> "none", used |-> LiveSpace(recs, n)]
      /\ last.op = "used_space" =>
            (last.result = "Ok" /\ last.out = LiveSpace(recs, None))

\* used_space answered on a flash that holds a stale record next to two live ones
C11_Witness ==
  /\ last.op = "used_space" /\ last.result = "Ok"
  /\ last.out > 0 /\ last.out < end_of_store(flash).position
  /\ Cardinality(NumbersIn(Records(flash))) >= 2

(***************************************************************************)
(* C12: when file n has a live record at offset p with payload length L,   *)
(* read_file(n, buf) returns BufferTooSmall iff len(buf) < L and otherwise *)
(* the L bytes read from p + 4; read_file issues no erase and no write.    *)
(***************************************************************************)
\* buffer lengths around the payload length L
ReadLens(L) == {b \in {0, L - 1, L, L + 1, SIZE} : b >= 0}

\* what the claim says of read_file(n, buffer_len) when rec is the live record of n
ReadsLive(r, rec, buffer_len) ==
  IF buffer_len < rec.size THEN r.result = "BufferTooSmall"
  ELSE r.result = "Ok" /\ r.data = LivePayload(flash, rec)

\* of every read the state allows
ReadLiveAll(recs) ==
  \A n \in FileNumbers :
     HasLive(recs, n) =>
       \E rec \in {Live(recs, n)} :
         \A buffer_len \in ReadLens(rec.size) :
            ReadsLive(read_file(flash, n, buffer_len), rec, buffer_len)

\* of the read the harness just made
ReadLiveCall(recs) ==
  (last.op = "read_file" /\ HasLive(recs, last.n)) =>
     /\ ReadsLive(last, Live(recs, last.n), last.buffer_len)
     /\ last.ops = <<>>

\* the claim as stated: whatever else the flash holds
C12_ReadLive == ReadLiveCall(Records(flash))

\* the claim amended: on a store whose scan meets no overrunning header
C12_ReadLiveNonCorrupt ==
  \E recs \in {Records(flash)} :
     ~AnyOverrun(recs) => (ReadLiveAll(recs) /\ ReadLiveCall(recs))

\* a one-byte buffer was refused for file 42 while file 0 holds a one-byte payload
C12_Witness ==
  /\ sinceInit /\ last.op = "read_file" /\ last.n = 42 /\ last.buffer_len = 1
  /\ last.result = "BufferTooSmall"
  /\ HasLive(Records(flash), 0) /\ Live(Records(flash), 0).size = 1

(***************************************************************************)
(* C13: write_file with a payload longer than 0xFFFFFF bytes panics, in    *)
(* every store state and on every device, before it issues any erase or    *)
(* write; the panic is never replaced by a NoSpaceLeft result.  Stated     *)
(* here of the stores whose scan succeeds, where no other error competes.  *)
(***************************************************************************)
C13_OversizePanics ==
  (last.op = "write_file" /\ last.len > MAX_FILE_SIZE /\ last.pre_err = "none") =>
     (last.result = "panic" /\ last.ops = <<>>)

(***************************************************************************)
(* C14: right after compact_flash_except(e) returns w, before the append:  *)
(* a scan finds exactly one record for each file number other than e that  *)
(* had a live record, none for e; the records lie back to back from offset *)
(* 0 in the order of their old offsets; w is the sum of their slot sizes;  *)
(* the scan's end-of-store is w and every byte in [w, SIZE) is erased.     *)
(***************************************************************************)
\* the live records of recs, without those of except, in scan order
KeptRecords(recs, except) ==
  LET idx == SetToSeq({i \in DOMAIN recs :
                         /\ recs[i].number # except
                         /\ \A j \in DOMAIN recs : recs[j].number = recs[i].number => j <= i})
  IN [k \in DOMAIN idx |-> recs[idx[k]]]

\* the offset at which the k-th of kept lies when they are packed from offset 0
RECURSIVE PackedOffset(_, _)
PackedOffset(kept, k) ==
  IF k = 1 THEN 0 ELSE PackedOffset(kept, k - 1) + SlotSize(kept[k - 1].size)

PackedEnd(kept) == IF kept = <<>> THEN 0 ELSE PackedOffset(kept, Len(kept) + 1)

Compacted(c, kept, after) ==
  /\ c.err = "none"
  /\ Len(after) = Len(kept)
  /\ \A k \in DOMAIN kept :
        /\ after[k].number = kept[k].number
        /\ after[k].size = kept[k].size
        /\ after[k].offset = PackedOffset(kept, k)
  /\ c.write_pointer = PackedEnd(kept)
  /\ end_of_store(c.flash) = [err |-> "none", position |-> c.write_pointer]
  /\ \A a \in c.write_pointer..(SIZE - 1) : c.flash[a] = ERASED_VALUE

C14_CompactedLayout ==
  [][(last'.op = "write_file" /\ last'.compacted) =>
        \A pad \in Pads :
          \E c \in {compact_flash_except(flash, last'.n, pad)} :
             Compacted(c, KeptRecords(Records(flash), last'.n), Records(c.flash))]_vars

\* a compaction packed the records of two other files and the append followed them
C14_Witness ==
  /\ last.op = "write_file" /\ last.compacted /\ last.result = "Ok"
  /\ last.eos > 0
  /\ Cardinality(NumbersIn(Records(flash)) \ {last.n}) >= 2

(***************************************************************************)
(* C15: in every state reached from an initialized flash by write_file     *)
(* calls: the records lie contiguously from offset 0, each at a multiple   *)
(* of max(WORD_SIZE, 4) and with offset + 4 + length <= SIZE; the first    *)
(* header that decodes to file number 0xFF (or offset SIZE) is the         *)
(* end-of-store; every byte from end-of-store to SIZE is ERASED_VALUE.     *)
(***************************************************************************)
\* where the last of recs ends
RecordsEnd(recs) ==
  IF recs = <<>> THEN 0 ELSE recs[Len(recs)].offset + SlotSize(recs[Len(recs)].size)

Layout(recs, end) ==
  /\ \A i \in DOMAIN recs :
        /\ recs[i].offset % Slot = 0
        /\ recs[i].offset + HEADER_SIZE + recs[i].size <= SIZE
        /\ recs[i].offset = IF i = 1 THEN 0 ELSE RecordsEnd(SubSeq(recs, 1, i - 1))
  /\ end <= SIZE
  /\ end = SIZE \/ read_header(flash, end).number = END_OF_STORE
  /\ end_of_store(flash) = [err |-> "none", position |-> end]
  /\ \A a \in end..(SIZE - 1) : flash[a] = ERASED_VALUE

C15_Layout == sinceInit => \E recs \in {Records(flash)} : Layout(recs, RecordsEnd(recs))

\* after a compaction the appends have filled the device up to its last byte
C15_Witness ==
  /\ sinceInit /\ erase_count[0] >= 1
  /\ last.op = "write_file" /\ last.result = "Ok"
  /\ Len(Records(flash)) >= 2
  /\ end_of_store(flash).position = SIZE

(***************************************************************************)
(* C16: during compaction every kept record is written to its new flash    *)
(* location before the erase of the page that holds its old copy is        *)
(* issued; only the tail of a record that straddles a page boundary is     *)
(* written after the erase of its page, from the RAM page buffer.          *)
(***************************************************************************)
PageOf(offset) == (offset \div PAGE_SIZE) * PAGE_SIZE

\* the positions in ops of the erases of page, of the writes at address
ErasesOf(ops, page) == {j \in DOMAIN ops : ops[j].op = "erase" /\ ops[j].addr = page}
WritesAt(ops, address) == {i \in DOMAIN ops : ops[i].op = "write" /\ ops[i].addr = address}

\* the claim as stated, for the first part of each kept record
HeadsBeforeErase(ops, kept) ==
  \A k \in DOMAIN kept :
     \E i \in WritesAt(ops, PackedOffset(kept, k)) :
        \A j \in ErasesOf(ops, PageOf(kept[k].offset)) : i < j

C16_CopyBeforeErase ==
  [][(last'.op = "write_file" /\ last'.compacted) =>
        \E c \in {compact_flash_except(flash, last'.n, Untouched)} :
           HeadsBeforeErase(c.ops, KeptRecords(Records(flash), last'.n))]_vars

\* the claim amended: every write of a compaction copies, from one page of the
\* flash as it was before the compaction, a part of one kept record to its place in
\* the packed layout, and is issued after the erase of the page it copies from; the
\* writes follow one another from offset 0 to the end of the packed records
CopiesAfterErase(f, ops, i, kept) ==
  \E k \in DOMAIN kept :
    \E w \in {PackedOffset(kept, k)} :
    \E source \in {kept[k].offset + (ops[i].addr - w)} :
      /\ w <= ops[i].addr
      /\ ops[i].addr + Len(ops[i].data) <= w + SlotSize(kept[k].size)
      /\ source + Len(ops[i].data) <= PageOf(source) + PAGE_SIZE
      /\ ops[i].data = DevRead(f, source, Len(ops[i].data))
      /\ \E j \in ErasesOf(ops, PageOf(source)) : j < i

RECURSIVE WrittenUpTo(_, _)
WrittenUpTo(ops, i) ==
  IF i = 0 THEN 0
  ELSE WrittenUpTo(ops, i - 1) + (IF ops[i].op = "write" THEN Len(ops[i].data) ELSE 0)

CopiedFromBuffer(f, ops, kept) ==
  /\ \A i \in DOMAIN ops :
        ops[i].op = "write" =>
          /\ ops[i].addr = WrittenUpTo(ops, i - 1)
          /\ CopiesAfterErase(f, ops, i, kept)
  /\ WrittenUpTo(ops, Len(ops)) = PackedEnd(kept)

C16_CopyAfterErase ==
  [][(last'.op = "write_file" /\ last'.compacted) =>
        \E c \in {compact_flash_except(flash, last'.n, Untouched)} :
           /\ c.err = "none"
           /\ CopiedFromBuffer(flash, c.ops, KeptRecords(Records(flash), last'.n))]_vars

\* a compaction wrote a record into an earlier page right after it had erased the
\* page the record came from
C16_Witness ==
  /\ last.op = "write_file" /\ last.compacted /\ last.result = "Ok"
  /\ \E i \in OpsOf("write") :
        /\ i > 1 /\ last.ops[i - 1].op = "erase"
        /\ last.ops[i].addr + Len(last.ops[i].data) <= last.ops[i - 1].addr
        /\ Len(last.ops[i].data) >= Slot
        /\ \E j \in OpsOf("erase") : j > i

(***************************************************************************)
(* C17: at every step of the compaction loop write_pointer <= read_pointer;*)
(* the new offset of every kept record is <= its old offset; every         *)
(* compaction write ends at or before the end of the page of the current   *)
(* iteration (write_pointer + bytes written <= page + PAGE_SIZE), so it    *)
(* covers only pages already read and erased; the assertion                *)
(* remaining_bytes_to_copy == 0 never fails.                               *)
(***************************************************************************)
\* the page of the iteration that issued ops[i]: the address of the last erase before it
CurrentPage(ops, i) ==
  ops[CHOOSE j \in 1..i : ops[j].op = "erase" /\ \A l \in (j + 1)..i : ops[l].op # "erase"].addr

PointersOrdered(st) == st.err = "none" /\ st.write_pointer <= st.read_pointer

\* the loop replayed page by page: the pointers at the head of each iteration, after
\* the copy of a tail, at the end of each iteration and when the loop is left
RECURSIVE LoopOrdered(_, _, _, _)
LoopOrdered(st, page, file_index, except_file_number) ==
  IF ~(page < SIZE) THEN PointersOrdered(st)
  ELSE /\ PointersOrdered(st)
       /\ PointersOrdered(copy_remaining(Issue(st, EraseOp(page), Untouched),
                                         DevRead(st.flash, page, PAGE_SIZE), Untouched))
       /\ LoopOrdered(compact_page(st, page, file_index, except_file_number, Untouched),
                      page + PAGE_SIZE, file_index, except_file_number)

CompactionOrdered(f, except_file_number) ==
  LoopOrdered([flash |-> f, ops |-> <<>>, read_pointer |-> 0, write_pointer |-> 0,
               remaining |-> 0, err |-> "none"],
              0, generate_file_index(f).positions, except_file_number)

WritesWithinPage(ops) ==
  \A i \in DOMAIN ops :
     ops[i].op = "write" =>
        /\ \E j \in 1..i : ops[j].op = "erase"
        /\ ops[i].addr + Len(ops[i].data) <= CurrentPage(ops, i) + PAGE_SIZE

MovesDown(kept) == \A k \in DOMAIN kept : PackedOffset(kept, k) <= kept[k].offset

C17_Monotonic ==
  [][(last'.op = "write_file" /\ last'.compacted) =>
        \E c \in {compact_flash_except(flash, last'.n, Untouched)} :
           /\ c.err = "none"
           /\ c.write_pointer <= c.read_pointer
           /\ CompactionOrdered(flash, last'.n)
           /\ WritesWithinPage(c.ops)
           /\ \E kept \in {KeptRecords(Records(flash), last'.n)} :
                 /\ MovesDown(kept)
                 /\ \A k \in DOMAIN kept : WritesAt(c.ops, PackedOffset(kept, k)) # {}]_vars

\* the writes of the append that ends a write_file
AppendWrites == IF WORD_SIZE > HEADER_SIZE /\ HEADER_SIZE + last.len <= WORD_SIZE THEN 1 ELSE 2

\* a compaction wrote a kept record in more parts than one: it copied a tail
C17_Witness ==
  /\ last.op = "write_file" /\ last.compacted /\ last.result = "Ok"
  /\ Len(Records(flash)) >= 2
  /\ Cardinality(OpsOf("write")) - AppendWrites > Len(Records(flash)) - 1

(***************************************************************************)
(* C18: for WORD_SIZE > 4 the append of a record with 4 + len <= WORD_SIZE *)
(* is exactly one write of WORD_SIZE bytes at end_of_store (header,        *)
(* payload, padding); with 4 + len > WORD_SIZE it is exactly two writes,   *)
(* WORD_SIZE bytes at end_of_store (header and the first WORD_SIZE - 4     *)
(* payload bytes) and the rest of the payload at end_of_store + WORD_SIZE. *)
(* For WORD_SIZE <= 4 it is the 4-byte header write at end_of_store and    *)
(* then the payload write at end_of_store + 4.                             *)
(***************************************************************************)
\* the first word of the append: header, then as much payload as the word holds
FirstWord(o, eos, header, data) ==
  /\ o.op = "write" /\ o.addr = eos /\ Len(o.data) = WORD_SIZE
  /\ \A k \in 1..HEADER_SIZE : o.data[k] = header[k]
  /\ \A k \in 1..Min(Len(data), WORD_SIZE - HEADER_SIZE) : o.data[HEADER_SIZE + k] = data[k]

AppendedAs(ops, eos, header, data) ==
  IF WORD_SIZE > HEADER_SIZE
  THEN IF HEADER_SIZE + Len(data) <= WORD_SIZE
       THEN Len(ops) = 1 /\ FirstWord(ops[1], eos, header, data)
       ELSE /\ Len(ops) = 2 /\ FirstWord(ops[1], eos, header, data)
            /\ ops[2] = WriteOp(eos + WORD_SIZE,
                                SubSeq(data, WORD_SIZE - HEADER_SIZE + 1, Len(data)))
  ELSE ops = << WriteOp(eos, header), WriteOp(eos + HEADER_SIZE, data) >>

\* the operations from the first write at or behind end_of_store on: the append
AppendPart(ops, eos) ==
  LET at == {i \in DOMAIN ops : ops[i].op = "write" /\ ops[i].addr >= eos}
  IN IF at = {} THEN <<>>
     ELSE SubSeq(ops, CHOOSE i \in at : \A j \in at : i <= j, Len(ops))

C18_AppendWrites ==
  (last.op = "write_file" /\ last.result = "Ok") =>
     /\ AppendedAs(AppendPart(last.ops, last.eos), last.eos,
                   make_header(last.n, last.len), last.data)
     /\ ~last.compacted => AppendPart(last.ops, last.eos) = last.ops

\* a payload that fills the first word exactly went out as one write
C18_Witness ==
  /\ WORD_SIZE > HEADER_SIZE
  /\ last.op = "write_file" /\ last.result = "Ok"
  /\ last.len = WORD_SIZE - HEADER_SIZE
  /\ Len(last.ops) = 1 /\ Len(last.ops[1].data) = WORD_SIZE

(***************************************************************************)
(* C19: write_file erases pages only when the new record does not fit at   *)
(* the tail (end_of_store + 4 + len > SIZE) and the NoSpaceLeft check      *)
(* passes; when the record fits at the tail write_file issues no erase,    *)
(* leaves every byte below the previous end-of-store as it was (stale      *)
(* records stay) and puts the new header exactly at the previous           *)
(* end-of-store.                                                           *)
(***************************************************************************)
Erases(ops) == \E i \in DOMAIN ops : ops[i].op = "erase"

AppendedAtTail(recs, end, call, f1, f2) ==
  /\ (Erases(call.ops)) =>
        /\ ~AnyOverrun(recs)
        /\ end + HEADER_SIZE + call.len > SIZE
        /\ HEADER_SIZE + call.len <= SIZE - LiveSpace(recs, call.n)
  /\ (~AnyOverrun(recs) /\ end + HEADER_SIZE + call.len <= SIZE) =>
        /\ ~Erases(call.ops)
        /\ call.result = "Ok"
        /\ \A a \in 0..(end - 1) : f2[a] = f1[a]
        /\ read_header(f2, end) = [number |-> call.n, size |-> call.len]
        /\ Records(f2) = Append(recs, [offset |-> end, number |-> call.n, size |-> call.len])

C19_LazyCompaction ==
  [][last'.op = "write_file" =>
        \E recs \in {Records(flash)} :
           AppendedAtTail(recs, RecordsEnd(recs), last', flash, flash')]_vars

\* an overwrite that ends exactly at SIZE went to the tail and left the stale record
C19_Witness ==
  /\ last.op = "write_file" /\ last.result = "Ok" /\ ~last.compacted
  /\ last.eos + HEADER_SIZE + last.len = SIZE
  /\ Cardinality(Versions(Records(flash), last.n)) >= 2

(***************************************************************************)
(* C20: for every ERASED_VALUE byte, every file number n in 0..254 and     *)
(* every length L in 0..0xFFFFFF, parse_header(make_header(n, L)) is       *)
(* (n, L); the first byte of make_header(n, L) differs from ERASED_VALUE;  *)
(* a header of four ERASED_VALUE bytes parses to file number 0xFF.         *)
(***************************************************************************)
RoundTrip(number, size) ==
  /\ parse_header(make_header(number, size)) = [number |-> number, size |-> size]
  /\ make_header(number, size)[1] # ERASED_VALUE

C20_HeaderRoundTrip ==
  /\ last.op = "make_header" => last.data[1] # ERASED_VALUE
  /\ last.op = "parse_header" => last.out = [number |-> last.n, size |-> last.len]
  /\ last.op = "read_header" =>
        /\ last.data = [k \in 1..HEADER_SIZE |-> ERASED_VALUE]
        /\ last.out.number = END_OF_STORE
        /\ \A number \in AllNumbers, size \in HeaderSizes : RoundTrip(number, size)

\* the highest file number and the longest length came back on a device that
\* erases to neither 0x00 nor 0xFF
C20_Witness ==
  /\ ERASED_VALUE \notin {0, U8 - 1}
  /\ last.op = "parse_header" /\ last.n = NUM_FILES - 1 /\ last.len = MAX_FILE_SIZE
  /\ last.out.size = MAX_FILE_SIZE

(***************************************************************************)
(* C21: if a write_file(n, ..) that does not compact is interrupted        *)
(* between its flash writes, then for every file number m # n a following  *)
(* read_file(m, ..) returns the same result (same payload or NotFound) as  *)
(* before the call, and no following scan (read_file, write_file,          *)
(* used_space) returns CorruptData.                                        *)
(***************************************************************************)
Scans == {"read_file", "write_file", "used_space"}

\* the reads of every other file, with every buffer length, on both sides of the
\* power loss
OthersUnchanged(before, after, n) ==
  \A m \in ProbeNumbers \ {n} : \A buffer_len \in 0..SIZE :
     read_file(after, m, buffer_len) = read_file(before, m, buffer_len)

ScansClean(f) ==
  /\ end_of_store(f).err = "none"
  /\ used_space(f).err = "none"
  /\ \A m \in ProbeNumbers : read_file(f, m, SIZE).result # "CorruptData"

C21_Interrupted ==
  [][ /\ last'.op = "write_file_interrupted" =>
           /\ OthersUnchanged(flash, flash', last'.n)
           /\ ScansClean(flash')
      /\ (crashes' > 0 /\ last'.op \in Scans) => last'.result # "CorruptData" ]_vars

\* the power loss hit a write of one file while another file was live, and the torn
\* record's header is on the device
C21_Witness ==
  /\ last.op = "write_file_interrupted"
  /\ \E m \in FileNumbers \ {last.n} :
        /\ files[m].present
        /\ read_file(flash, m, SIZE) = [result |-> "Ok", data |-> files[m].data]
  /\ end_of_store(flash).position > last.eos

(***************************************************************************)
(* The reads a call issues.  The three scan loops (find, used_space_except,*)
(* generate_file_index) read one header per iteration; read_file reads the *)
(* payload; the compaction reads every page it erases.                     *)
(***************************************************************************)
ReadOp(f, address, len) == [op |-> "read", addr |-> address, data |-> DevRead(f, address, len)]

\* while position < SIZE { read_header(position)?; .. }
RECURSIVE scan_reads(_, _)
scan_reads(f, position) ==
  LET Body(h) ==
        IF h.number = END_OF_STORE \/ position + HEADER_SIZE + h.size > SIZE
        THEN << ReadOp(f, position, HEADER_SIZE) >>
        ELSE << ReadOp(f, position, HEADER_SIZE) >>
             \o scan_reads(f, position + round(HEADER_SIZE + h.size))
  IN IF ~(position < SIZE) THEN <<>> ELSE Body(read_header(f, position))

\* find, then flash.read(position + HEADER_SIZE, &mut buffer[0..size])
read_file_reads(f, file_number, buffer_len) ==
  LET Match(r) ==
        IF r.kind = "Found" /\ ~(buffer_len < r.size)
        THEN << ReadOp(f, r.offset + HEADER_SIZE, r.size) >>
        ELSE <<>>
  IN scan_reads(f, 0) \o Match(find(f, file_number))

\* flash.read(page, &mut page_buffer) goes before every erase_page(page)
compact_reads(f, ops) ==
  LET Pick(o) == IF o.op = "erase" THEN << ReadOp(f, o.addr, PAGE_SIZE) >> ELSE <<>>
      RECURSIVE Walk(_)
      Walk(i) == IF i > Len(ops) THEN <<>> ELSE Pick(ops[i]) \o Walk(i + 1)
  IN Walk(1)

\* end_of_store; used_space_except when the record does not fit at the tail;
\* generate_file_index and the page reads when the store is compacted
write_file_reads(f, buffer_len, ops, compacted) ==
  LET Scanned(e) ==
        IF e.err # "none" THEN <<>>
        ELSE IF e.position + HEADER_SIZE + buffer_len > SIZE
        THEN scan_reads(f, 0)
             \o (IF compacted THEN scan_reads(f, 0) \o compact_reads(f, ops) ELSE <<>>)
        ELSE <<>>
  IN scan_reads(f, 0) \o Scanned(end_of_store(f))

\* every flash operation of one call on the flash f: the reads, then the writes and
\* erases
Issued(f, call) ==
  IF call.op = "read_file" THEN read_file_reads(f, call.n, call.buffer_len)
  ELSE IF call.op = "used_space" THEN scan_reads(f, 0)
  ELSE IF call.op = "write_file"
  THEN write_file_reads(f, call.len, call.ops, call.compacted) \o call.ops
  ELSE call.ops

(***************************************************************************)
(* C22: every read, write and erase the store issues, in any sequence of   *)
(* operations on a non-corrupt store, has a start address strictly below   *)
(* SIZE and an end (address + length) at or below SIZE; a scan that        *)
(* reaches position == SIZE (a record filling the final slot) stops        *)
(* without reading a header at SIZE, and an append of an empty payload     *)
(* into the last 4 free bytes issues no flash operation at address SIZE.   *)
(***************************************************************************)
StoreCalls == {"read_file", "write_file", "used_space", "initialize_flash"}

OpLen(o) == IF o.op = "erase" THEN PAGE_SIZE ELSE Len(o.data)

\* the scan of a store whose last record fills the final slot reads no header at SIZE
ScanStopsAtSize(f) ==
  end_of_store(f).position = SIZE =>
     \A i \in DOMAIN scan_reads(f, 0) : scan_reads(f, 0)[i].addr < SIZE

\* the call appended an empty payload into the last 4 free bytes
EmptyAppendAtEnd(call) ==
  /\ call.op = "write_file" /\ call.result = "Ok"
  /\ call.len = 0 /\ call.eos = SIZE - HEADER_SIZE

\* the claim as it stands: no operation starts at SIZE
C22_BelowSize ==
  [][ (end_of_store(flash).err = "none" /\ last'.op \in StoreCalls) =>
        \A ops \in {Issued(flash, last')} :
           /\ \A i \in DOMAIN ops : /\ ops[i].addr < SIZE
                                    /\ ops[i].addr + OpLen(ops[i]) <= SIZE
           /\ ScanStopsAtSize(flash)
           /\ EmptyAppendAtEnd(last') =>
                 \A i \in DOMAIN last'.ops : last'.ops[i].addr # SIZE ]_vars

\* amended: no operation reaches behind SIZE, and only an operation of no bytes
\* starts at SIZE; the empty append into the last 4 bytes ends with the write of
\* the empty payload at SIZE
C22_WithinSize ==
  [][ (end_of_store(flash).err = "none" /\ last'.op \in StoreCalls) =>
        \A ops \in {Issued(flash, last')} :
           /\ \A i \in DOMAIN ops : /\ ops[i].addr + OpLen(ops[i]) <= SIZE
                                    /\ OpLen(ops[i]) > 0 => ops[i].addr < SIZE
           /\ ScanStopsAtSize(flash)
           /\ EmptyAppendAtEnd(last') =>
                 /\ last'.ops[Len(last'.ops)] = WriteOp(SIZE, <<>>)
                 /\ \A i \in 1..(Len(last'.ops) - 1) : last'.ops[i].addr < SIZE ]_vars

\* an empty payload was appended into the last 4 bytes of a store that the next
\* scan walks up to SIZE
C22_Witness ==
  /\ EmptyAppendAtEnd(last)
  /\ last.ops[Len(last.ops)].addr = SIZE
  /\ end_of_store(flash) = [err |-> "none", position |-> SIZE]

====
